---- MODULE Spec2Model ----
(***************************************************************************)
(* Model of the guard agent's trust aggregation and escalation engine:     *)
(*   - FacialRecognizer (src/pyfiles/CV/recognizeFaces.py): the background *)
(*     recognition loop with its sliding detection window, and the         *)
(*     start_recognition / stop_recognition lifecycle;                     *)
(*   - Gemma (src/pyfiles/NLP/gemma.py): the escalation controller;        *)
(*   - AudioInterpreter and Listner (src/pyfiles/ASR/captureAudioWisper.py)*)
(*     with their two background threads and terminate.                    *)
(* The classes share no state in the source, so each has its own           *)
(* next-state relation over the common variables.                          *)
(***************************************************************************)
EXTENDS Integers, Sequences, FiniteSets, TLC

VARIABLES
    \* ---- FacialRecognizer fields
    is_verified,          \* self.is_verified
    detection_history,    \* self.detection_history: deque of (timestamp, status)
    _running,             \* self._running
    _recognition_thread,  \* self._recognition_thread: 0 is None, else a thread id
    \* ---- one entry per thread ever created by start_recognition
    pc,                   \* position of the thread in _recognition_loop
    last_verified_state,  \* the loop's local last_verified_state
    opened,               \* times the thread's VideoCapture was opened
    released,             \* times the thread called video_capture.release()
    current_time,         \* the loop's local current_time
    frame_status,         \* the loop's local status
    trusted_count,        \* the loop's local trusted_count
    total_count,          \* the loop's local total_count
    mutated,              \* the deque changed under the thread's iterator
    \* ---- output of the loops
    notified,             \* number of "State changed to: ..." reports printed
    flips,                \* history: number of writes that changed is_verified
    \* ---- caller of start_recognition / stop_recognition
    mainpc,               \* position of the caller inside start/stop_recognition
    last_print,           \* last message printed by start/stop_recognition
    \* ---- environment
    now,                  \* time.time(), in whole seconds
    ingested,             \* history: every (timestamp, status) ever appended
    \* ---- Gemma fields and last results
    gemma_is_verified,    \* Gemma.is_verified
    escalation_level,     \* Gemma.escalation_level
    prompt,               \* last prompt_content handed to the generator
    reply,                \* outcome of the last chat call
    last_call,            \* history: the last call made on the Gemma object
    status_set,           \* history: set_verification_status was called
    \* ---- AudioInterpreter and Listner
    audioData,            \* AudioInterpreter.audioData: list of chunks
    \* ---- one entry per thread ever created by Listner.run
    listenpc,             \* position of the thread in Listner.listen
    \* ---- one entry per thread ever created by AudioInterpreter.run
    interppc,             \* position of the thread in interpret
    audio,                \* the chunks joined into the buffer being transcribed
    \* ---- fields and callers
    listeningThread,      \* Listner.listeningThread: 0 is unbound, else a thread
    interpetingThread,    \* AudioInterpreter.interpetingThread, likewise
    stream,               \* state of Listner.stream
    stream_calls,         \* history: stop_stream / close calls made on it
    p,                    \* Listner.p: "up", or "terminated"
    model,                \* AudioInterpreter.model: "loaded", or "deleted"
    runpc,                \* position of the caller in AudioInterpreter.run
    terminatepc,          \* position of the caller in AudioInterpreter.terminate
    joined                \* the thread that caller's join waits for

recVars == <<is_verified, detection_history, _running, _recognition_thread,
             pc, last_verified_state, opened, released, current_time,
             frame_status, trusted_count, total_count, mutated, mainpc>>
outVars == <<notified, flips>>
envVars == <<now, ingested>>
gemmaVars == <<gemma_is_verified, escalation_level, prompt, reply, last_call,
               status_set>>
audioVars == <<audioData, audio, listenpc, interppc, listeningThread,
               interpetingThread, runpc, stream, stream_calls, p, model,
               terminatepc, joined>>
vars == <<is_verified, detection_history, _running, _recognition_thread,
          pc, last_verified_state, opened, released, current_time,
          frame_status, trusted_count, total_count, mutated, mainpc, last_print,
          now, ingested, gemma_is_verified, escalation_level, prompt, reply,
          last_call, status_set, notified, flips, audioData, audio,
          listenpc, interppc, listeningThread, interpetingThread, runpc,
          stream, stream_calls, p, model, terminatepc, joined>>

(***************************************************************************)
(* Bounds of the model.                                                    *)
(***************************************************************************)
\* lifecycle specification: threads created, frames ingested, clock range
MaxThreads == 2
MaxObs == 1
MaxTime == 1
\* restart-race specification: frames ingested across two overlapping loops
MaxRaceObs == 2
\* window specification (one recognition run): frames ingested, clock range
MaxWindowObs == 3
MaxWindowTime == 4
\* escalation specification: highest level an unverified chat turn starts from
MaxLevel == 4
\* audio specification: chunks the listening threads append, calls of run
MaxChunks == 11
MaxRuns == 2
MaxStreamCalls == 4

(***************************************************************************)
(* Sliding-window aggregation: the tests of one good cycle.                 *)
(***************************************************************************)
Labels == {"Trusted", "Untrusted", "No Face Detected"}

state_window_seconds == 3

Observation(t, status) == [ts |-> t, status |-> status]

\* line 128: current_time - self.detection_history[0][0] > state_window_seconds
IsStale(time, head) == time - head.ts > state_window_seconds

\* line 134: sum(1 for _, s in self.detection_history if s == "Trusted")
TrustedCount(h) == Cardinality({i \in 1..Len(h) : h[i].status = "Trusted"})

\* line 139: (trusted_count / total_count) >= 0.5, for total_count > 0
Majority(trusted, total) == 2 * trusted >= total

(***************************************************************************)
(* Initial state: after FacialRecognizer.__init__ and Gemma.__init__.      *)
(***************************************************************************)
NoPrompt == [tier |-> "none", user_input |-> <<>>]

NoCall == <<"__init__">>

Init ==
    /\ is_verified = FALSE
    /\ detection_history = <<>>
    /\ _running = FALSE
    /\ _recognition_thread = 0
    /\ pc = <<>>
    /\ last_verified_state = <<>>
    /\ opened = <<>>
    /\ released = <<>>
    /\ current_time = <<>>
    /\ frame_status = <<>>
    /\ trusted_count = <<>>
    /\ total_count = <<>>
    /\ mutated = <<>>
    /\ mainpc = "idle"
    /\ last_print = ""
    /\ now = 0
    /\ ingested = <<>>
    /\ gemma_is_verified = TRUE
    /\ escalation_level = 0
    /\ prompt = NoPrompt
    /\ reply = "none"
    /\ last_call = NoCall
    /\ status_set = FALSE
    /\ notified = 0
    /\ flips = 0
    /\ audioData = <<>>
    /\ audio = <<>>
    /\ listenpc = <<>>
    /\ interppc = <<>>
    /\ listeningThread = 0
    /\ interpetingThread = 0
    /\ runpc = "idle"
    /\ joined = 0
    /\ stream = "active"
    /\ stream_calls = <<>>
    /\ p = "up"
    /\ model = "loaded"
    /\ terminatepc = "idle"

ThreadIds == 1..Len(pc)

(***************************************************************************)
(* _recognition_loop, one action per step of thread t.  The loop holds no  *)
(* lock: every read and every write of the object's fields is a step of    *)
(* its own, and the loop's locals are kept per thread.                     *)
(***************************************************************************)

\* lines 102-108: open the camera; return at once when it cannot be opened
OpenCamera(t, ok) ==
    /\ pc[t] = "open"
    /\ IF ok
       THEN /\ opened' = [opened EXCEPT ![t] = @ + 1]
            /\ last_verified_state' = [last_verified_state EXCEPT ![t] = is_verified]
            /\ pc' = [pc EXCEPT ![t] = "test"]
       ELSE /\ pc' = [pc EXCEPT ![t] = "done"]
            /\ UNCHANGED <<opened, last_verified_state>>
    /\ UNCHANGED <<is_verified, detection_history, _running,
                   _recognition_thread, released, current_time, frame_status,
                   trusted_count, total_count, mutated, mainpc, last_print,
                   now, ingested, notified, flips>>
    /\ UNCHANGED <<gemmaVars, audioVars>>

\* line 112: while self._running
LoopTest(t) ==
    /\ pc[t] = "test"
    /\ pc' = [pc EXCEPT ![t] = IF _running THEN "read" ELSE "release"]
    /\ UNCHANGED <<is_verified, detection_history, _running,
                   _recognition_thread, last_verified_state, opened, released,
                   current_time, frame_status, trusted_count, total_count,
                   mutated, mainpc, last_print, now, ingested, notified,
                   flips>>
    /\ UNCHANGED <<gemmaVars, audioVars>>

\* lines 113-115: ret, frame = video_capture.read()
ReadFrame(t, ret) ==
    /\ pc[t] = "read"
    /\ pc' = [pc EXCEPT ![t] = IF ret THEN "ingest" ELSE "sleep"]
    /\ UNCHANGED <<is_verified, detection_history, _running,
                   _recognition_thread, last_verified_state, opened, released,
                   current_time, frame_status, trusted_count, total_count,
                   mutated, mainpc, last_print, now, ingested, notified,
                   flips>>
    /\ UNCHANGED <<gemmaVars, audioVars>>

\* mutant: a failed frame ends the loop
FailedFrameBreaks(t) ==
    /\ pc[t] = "sleep"
    /\ pc' = [pc EXCEPT ![t] = "release"]
    /\ UNCHANGED <<is_verified, detection_history, _running,
                   _recognition_thread, last_verified_state, opened, released,
                   current_time, frame_status, trusted_count, total_count,
                   mutated, mainpc, last_print, now, ingested, notified,
                   flips>>
    /\ UNCHANGED <<gemmaVars, audioVars>>

\* lines 116-117: time.sleep(1); continue.  The length of the sleep is left
\* open: the clock advances on its own (Tick).
FailedFrame(t) ==
    /\ pc[t] = "sleep"
    /\ pc' = [pc EXCEPT ![t] = "test"]
    /\ UNCHANGED <<is_verified, detection_history, _running,
                   _recognition_thread, last_verified_state, opened, released,
                   current_time, frame_status, trusted_count, total_count,
                   mutated, mainpc, last_print, now, ingested, notified,
                   flips>>
    /\ UNCHANGED <<gemmaVars, audioVars>>

\* lines 119-122: process_frame yields the label, time.time() the timestamp;
\* both are locals of the thread
Stamp(t, label) ==
    /\ pc[t] = "ingest"
    /\ frame_status' = [frame_status EXCEPT ![t] = label]
    /\ current_time' = [current_time EXCEPT ![t] = now]
    /\ pc' = [pc EXCEPT ![t] = "append"]
    /\ UNCHANGED <<is_verified, detection_history, _running,
                   _recognition_thread, last_verified_state, opened, released,
                   trusted_count, total_count, mutated, mainpc, last_print,
                   now, ingested, notified, flips>>
    /\ UNCHANGED <<gemmaVars, audioVars>>

\* mutant: the flag is cleared when the observation is appended
AppendObsClearsFlag(t) ==
    /\ pc[t] = "append"
    /\ detection_history' =
          Append(detection_history, Observation(current_time[t], frame_status[t]))
    /\ ingested' = Append(ingested, Observation(current_time[t], frame_status[t]))
    /\ mutated' = [u \in ThreadIds |-> mutated[u] \/ pc[u] = "count"]
    /\ is_verified' = FALSE
    /\ pc' = [pc EXCEPT ![t] = "evict"]
    /\ UNCHANGED <<_running, _recognition_thread, last_verified_state, opened,
                   released, current_time, frame_status, trusted_count,
                   total_count, mainpc, last_print, now, notified, flips>>
    /\ UNCHANGED <<gemmaVars, audioVars>>

\* line 125: self.detection_history.append((current_time, status)); an
\* iterator another thread holds on the deque is invalidated
AppendObs(t) ==
    /\ pc[t] = "append"
    /\ detection_history' =
          Append(detection_history, Observation(current_time[t], frame_status[t]))
    /\ ingested' = Append(ingested, Observation(current_time[t], frame_status[t]))
    /\ mutated' = [u \in ThreadIds |-> mutated[u] \/ pc[u] = "count"]
    /\ pc' = [pc EXCEPT ![t] = "evict"]
    /\ UNCHANGED <<is_verified, _running, _recognition_thread,
                   last_verified_state, opened, released, current_time,
                   frame_status, trusted_count, total_count, mainpc,
                   last_print, now, notified, flips>>
    /\ UNCHANGED <<gemmaVars, audioVars>>

\* line 128, left operand: while self.detection_history
EvictTest(t) ==
    /\ pc[t] = "evict"
    /\ pc' = [pc EXCEPT ![t] = IF detection_history # <<>> THEN "head" ELSE "vote"]
    /\ UNCHANGED <<is_verified, detection_history, _running,
                   _recognition_thread, last_verified_state, opened, released,
                   current_time, frame_status, trusted_count, total_count,
                   mutated, mainpc, last_print, now, ingested, notified,
                   flips>>
    /\ UNCHANGED <<gemmaVars, audioVars>>

\* line 128, right operand, and line 129, one step at a time: the age of
\* self.detection_history[0] is tested, then popleft() is called; either one
\* raises IndexError, which ends the thread, when the deque has been emptied
\* in between
EvictStep(t) ==
    /\ pc[t] \in {"head", "popleft"}
    /\ IF pc[t] = "head"
       THEN /\ pc' = [pc EXCEPT ![t] =
                       IF detection_history = <<>> THEN "done"
                       ELSE IF IsStale(current_time[t], detection_history[1])
                            THEN "popleft"
                            ELSE "vote"]
            /\ UNCHANGED <<detection_history, mutated>>
       ELSE IF detection_history = <<>>
       THEN /\ pc' = [pc EXCEPT ![t] = "done"]
            /\ UNCHANGED <<detection_history, mutated>>
       ELSE /\ detection_history' = Tail(detection_history)
            /\ mutated' = [u \in ThreadIds |-> mutated[u] \/ pc[u] = "count"]
            /\ pc' = [pc EXCEPT ![t] = "evict"]
    /\ UNCHANGED <<is_verified, _running, _recognition_thread,
                   last_verified_state, opened, released, current_time,
                   frame_status, trusted_count, total_count, mainpc,
                   last_print, now, ingested, notified, flips>>
    /\ UNCHANGED <<gemmaVars, audioVars>>

\* line 132: if self.detection_history
VoteTest(t) ==
    /\ pc[t] = "vote"
    /\ pc' = [pc EXCEPT ![t] = IF detection_history # <<>> THEN "iter" ELSE "clear"]
    /\ UNCHANGED <<is_verified, detection_history, _running,
                   _recognition_thread, last_verified_state, opened, released,
                   current_time, frame_status, trusted_count, total_count,
                   mutated, mainpc, last_print, now, ingested, notified,
                   flips>>
    /\ UNCHANGED <<gemmaVars, audioVars>>

\* line 134: the generator takes an iterator on the deque
CountBegin(t) ==
    /\ pc[t] = "iter"
    /\ mutated' = [mutated EXCEPT ![t] = FALSE]
    /\ pc' = [pc EXCEPT ![t] = "count"]
    /\ UNCHANGED <<is_verified, detection_history, _running,
                   _recognition_thread, last_verified_state, opened, released,
                   current_time, frame_status, trusted_count, total_count,
                   mainpc, last_print, now, ingested, notified, flips>>
    /\ UNCHANGED <<gemmaVars, audioVars>>

\* line 134: sum() runs the iterator to its end; RuntimeError ('deque mutated
\* during iteration') ends the thread when the deque changed since CountBegin
CountEnd(t) ==
    /\ pc[t] = "count"
    /\ IF mutated[t]
       THEN /\ pc' = [pc EXCEPT ![t] = "done"]
            /\ UNCHANGED trusted_count
       ELSE /\ trusted_count' = [trusted_count EXCEPT ![t] = TrustedCount(detection_history)]
            /\ pc' = [pc EXCEPT ![t] = "len"]
    /\ mutated' = [mutated EXCEPT ![t] = FALSE]
    /\ UNCHANGED <<is_verified, detection_history, _running,
                   _recognition_thread, last_verified_state, opened, released,
                   current_time, frame_status, total_count, mainpc,
                   last_print, now, ingested, notified, flips>>
    /\ UNCHANGED <<gemmaVars, audioVars>>

\* line 135: total_count = len(self.detection_history)
ReadLen(t) ==
    /\ pc[t] = "len"
    /\ total_count' = [total_count EXCEPT ![t] = Len(detection_history)]
    /\ pc' = [pc EXCEPT ![t] = "decide"]
    /\ UNCHANGED <<is_verified, detection_history, _running,
                   _recognition_thread, last_verified_state, opened, released,
                   current_time, frame_status, trusted_count, mutated, mainpc,
                   last_print, now, ingested, notified, flips>>
    /\ UNCHANGED <<gemmaVars, audioVars>>

\* lines 139-145: the write of the verdict, from the counts (ZeroDivisionError
\* ends the thread when total_count is 0) or, when the history was empty at
\* line 132, as False
Decide(t) ==
    /\ pc[t] \in {"decide", "clear"}
    /\ IF pc[t] = "decide" /\ total_count[t] = 0
       THEN /\ pc' = [pc EXCEPT ![t] = "done"]
            /\ UNCHANGED <<is_verified, flips>>
       ELSE /\ is_verified' = IF pc[t] = "decide"
                              THEN Majority(trusted_count[t], total_count[t])
                              ELSE FALSE
            /\ flips' = IF is_verified' # is_verified THEN flips + 1 ELSE flips
            /\ pc' = [pc EXCEPT ![t] = "compare"]
    /\ UNCHANGED <<detection_history, _running, _recognition_thread,
                   last_verified_state, opened, released, current_time,
                   frame_status, trusted_count, total_count, mutated, mainpc,
                   last_print, now, ingested, notified>>
    /\ UNCHANGED <<gemmaVars, audioVars>>

\* line 148: if self.is_verified != last_verified_state
Compare(t) ==
    /\ pc[t] = "compare"
    /\ pc' = [pc EXCEPT ![t] =
                IF is_verified # last_verified_state[t] THEN "report" ELSE "waitkey"]
    /\ UNCHANGED <<is_verified, detection_history, _running,
                   _recognition_thread, last_verified_state, opened, released,
                   current_time, frame_status, trusted_count, total_count,
                   mutated, mainpc, last_print, now, ingested, notified,
                   flips>>
    /\ UNCHANGED <<gemmaVars, audioVars>>

\* line 149: print "State changed to: ..."
Report(t) ==
    /\ pc[t] = "report"
    /\ notified' = notified + 1
    /\ pc' = [pc EXCEPT ![t] = "remember"]
    /\ UNCHANGED <<is_verified, detection_history, _running,
                   _recognition_thread, last_verified_state, opened, released,
                   current_time, frame_status, trusted_count, total_count,
                   mutated, mainpc, last_print, now, ingested, flips>>
    /\ UNCHANGED <<gemmaVars, audioVars>>

\* line 150: last_verified_state = self.is_verified, read again
Remember(t) ==
    /\ pc[t] = "remember"
    /\ last_verified_state' = [last_verified_state EXCEPT ![t] = is_verified]
    /\ pc' = [pc EXCEPT ![t] = "waitkey"]
    /\ UNCHANGED <<is_verified, detection_history, _running,
                   _recognition_thread, opened, released, current_time,
                   frame_status, trusted_count, total_count, mutated, mainpc,
                   last_print, now, ingested, notified, flips>>
    /\ UNCHANGED <<gemmaVars, audioVars>>

\* lines 152-166: draw and show the frame; the 'q' key clears the flag
WaitKey(t, q) ==
    /\ pc[t] = "waitkey"
    /\ _running' = IF q THEN FALSE ELSE _running
    /\ pc' = [pc EXCEPT ![t] = "test"]
    /\ UNCHANGED <<is_verified, detection_history, _recognition_thread,
                   last_verified_state, opened, released, current_time,
                   frame_status, trusted_count, total_count, mutated, mainpc,
                   last_print, now, ingested, notified, flips>>
    /\ UNCHANGED <<gemmaVars, audioVars>>

\* lines 168-170: video_capture.release()
Release(t) ==
    /\ pc[t] = "release"
    /\ released' = [released EXCEPT ![t] = @ + 1]
    /\ pc' = [pc EXCEPT ![t] = "done"]
    /\ UNCHANGED <<is_verified, detection_history, _running,
                   _recognition_thread, last_verified_state, opened,
                   current_time, frame_status, trusted_count, total_count,
                   mutated, mainpc, last_print, now, ingested, notified,
                   flips>>
    /\ UNCHANGED <<gemmaVars, audioVars>>

(***************************************************************************)
(* start_recognition and stop_recognition, called from one caller thread.  *)
(***************************************************************************)

\* lines 173-189: the checks, then self._running = True; dir_ok: the
\* trusted-faces directory exists and holds an image
start_recognition(dir_ok) ==
    /\ mainpc = "idle"
    /\ IF ~dir_ok
       THEN /\ last_print' = "-----------------"
            /\ UNCHANGED <<_running, mainpc>>
       ELSE IF _running
       THEN /\ last_print' = "Recognition is already running."
            /\ UNCHANGED <<_running, mainpc>>
       ELSE /\ _running' = TRUE
            /\ mainpc' = "create"
            /\ UNCHANGED last_print
    /\ UNCHANGED <<is_verified, detection_history, _recognition_thread, pc,
                   last_verified_state, opened, released, current_time,
                   frame_status, trusted_count, total_count, mutated, now,
                   ingested, notified, flips>>
    /\ UNCHANGED <<gemmaVars, audioVars>>

\* line 190: self._recognition_thread = threading.Thread(...)
CreateThread ==
    /\ mainpc = "create"
    /\ _recognition_thread' = Len(pc) + 1
    /\ mainpc' = "start"
    /\ UNCHANGED <<is_verified, detection_history, _running, pc,
                   last_verified_state, opened, released, current_time,
                   frame_status, trusted_count, total_count, mutated,
                   last_print, now, ingested, notified, flips>>
    /\ UNCHANGED <<gemmaVars, audioVars>>

\* line 191: start() returns once the new thread runs
StartThread ==
    /\ mainpc = "start"
    /\ pc' = Append(pc, "open")
    /\ last_verified_state' = Append(last_verified_state, FALSE)
    /\ opened' = Append(opened, 0)
    /\ released' = Append(released, 0)
    /\ current_time' = Append(current_time, 0)
    /\ frame_status' = Append(frame_status, "none")
    /\ trusted_count' = Append(trusted_count, 0)
    /\ total_count' = Append(total_count, 0)
    /\ mutated' = Append(mutated, FALSE)
    /\ mainpc' = "started"
    /\ UNCHANGED <<is_verified, detection_history, _running,
                   _recognition_thread, last_print, now, ingested, notified,
                   flips>>
    /\ UNCHANGED <<gemmaVars, audioVars>>

\* line 192: print "Recognition thread started."
PrintStarted ==
    /\ mainpc = "started"
    /\ last_print' = "Recognition thread started."
    /\ mainpc' = "idle"
    /\ UNCHANGED <<is_verified, detection_history, _running,
                   _recognition_thread, pc, last_verified_state, opened,
                   released, current_time, frame_status, trusted_count,
                   total_count, mutated, now, ingested, notified, flips>>
    /\ UNCHANGED <<gemmaVars, audioVars>>

\* mutant: stop without the "not running" guard
stop_recognition_unguarded ==
    /\ mainpc = "idle"
    /\ _running' = FALSE
    /\ mainpc' = "joining"
    /\ last_print' = "Stopping recognition process..."
    /\ UNCHANGED <<is_verified, detection_history, _recognition_thread, pc,
                   last_verified_state, opened, released, current_time,
                   frame_status, trusted_count, total_count, mutated, now,
                   ingested, notified, flips>>
    /\ UNCHANGED <<gemmaVars, audioVars>>

\* lines 194-203: up to the call of join
stop_recognition ==
    /\ mainpc = "idle"
    /\ IF ~_running
       THEN /\ last_print' = "Recognition is not running."
            /\ UNCHANGED <<_running, mainpc>>
       ELSE /\ _running' = FALSE
            /\ mainpc' = "joining"
            /\ last_print' = "Stopping recognition process..."
    /\ UNCHANGED <<is_verified, detection_history, _recognition_thread, pc,
                   last_verified_state, opened, released, current_time,
                   frame_status, trusted_count, total_count, mutated, now,
                   ingested, notified, flips>>
    /\ UNCHANGED <<gemmaVars, audioVars>>

\* lines 203-204: join returns once the thread has ended
JoinReturn ==
    /\ mainpc = "joining"
    /\ _recognition_thread \in ThreadIds
    /\ pc[_recognition_thread] = "done"
    /\ mainpc' = "idle"
    /\ last_print' = "Recognition thread stopped."
    /\ UNCHANGED <<is_verified, detection_history, _running,
                   _recognition_thread, pc, last_verified_state, opened,
                   released, current_time, frame_status, trusted_count,
                   total_count, mutated, now, ingested, notified, flips>>
    /\ UNCHANGED <<gemmaVars, audioVars>>

\* the clock
Tick(maxTime) ==
    /\ now < maxTime
    /\ now' = now + 1
    /\ UNCHANGED <<is_verified, detection_history, _running,
                   _recognition_thread, pc, last_verified_state, opened,
                   released, current_time, frame_status, trusted_count,
                   total_count, mutated, mainpc, last_print, ingested,
                   notified, flips>>
    /\ UNCHANGED <<gemmaVars, audioVars>>

\* any step of thread t's loop (used for fairness)
LoopStep(t) ==
    /\ t \in ThreadIds
    /\ \/ \E ok \in BOOLEAN : OpenCamera(t, ok)
       \/ LoopTest(t)
       \/ \E ret \in BOOLEAN : ReadFrame(t, ret)
       \/ FailedFrame(t)
       \/ \E label \in Labels : Stamp(t, label)
       \/ AppendObs(t)
       \/ EvictTest(t)
       \/ EvictStep(t)
       \/ VoteTest(t)
       \/ CountBegin(t)
       \/ CountEnd(t)
       \/ ReadLen(t)
       \/ Decide(t)
       \/ Compare(t)
       \/ Report(t)
       \/ Remember(t)
       \/ \E q \in BOOLEAN : WaitKey(t, q)
       \/ Release(t)

\* the steps of the caller and of the loop threads; mayStart limits the
\* threads created, maxObs the frames read
LifecycleNext(mayStart, maxObs) ==
    \/ \E dir_ok \in BOOLEAN :
          /\ (dir_ok /\ ~_running) => mayStart
          /\ start_recognition(dir_ok)
    \/ CreateThread
    \/ StartThread
    \/ PrintStarted
    \/ stop_recognition
    \/ JoinReturn
    \/ \E t \in ThreadIds : \E ok \in BOOLEAN : OpenCamera(t, ok)
    \/ \E t \in ThreadIds : LoopTest(t)
    \/ \E t \in ThreadIds : \E ret \in BOOLEAN :
          /\ ret => Len(ingested) < maxObs
          /\ ReadFrame(t, ret)
    \/ \E t \in ThreadIds : FailedFrame(t)
    \/ \E t \in ThreadIds : \E label \in Labels : Stamp(t, label)
    \/ \E t \in ThreadIds : AppendObs(t)
    \/ \E t \in ThreadIds : EvictTest(t)
    \/ \E t \in ThreadIds : EvictStep(t)
    \/ \E t \in ThreadIds : VoteTest(t)
    \/ \E t \in ThreadIds : CountBegin(t)
    \/ \E t \in ThreadIds : CountEnd(t)
    \/ \E t \in ThreadIds : ReadLen(t)
    \/ \E t \in ThreadIds : Decide(t)
    \/ \E t \in ThreadIds : Compare(t)
    \/ \E t \in ThreadIds : Report(t)
    \/ \E t \in ThreadIds : Remember(t)
    \/ \E t \in ThreadIds : \E q \in BOOLEAN : WaitKey(t, q)
    \/ \E t \in ThreadIds : Release(t)

\* the same steps while the clock runs up to maxTime
RecognizerNext(mayStart, maxObs, maxTime) ==
    \/ LifecycleNext(mayStart, maxObs)
    \/ Tick(maxTime)

Next == RecognizerNext(Len(pc) < MaxThreads, MaxObs, MaxTime)

Spec == Init /\ [][Next]_vars

\* a single recognition run (the loop is started once), with a longer clock
\* and more frames
WindowNext == RecognizerNext(pc = <<>>, MaxWindowObs, MaxWindowTime)

WindowSpec == Init /\ [][WindowNext]_vars

\* the lifecycle with enough frames for a loop that was restarted after its
\* 'q' key to work next to the loop it should have replaced
RaceNext == RecognizerNext(Len(pc) < MaxThreads, MaxRaceObs, MaxTime)

RaceSpec == Init /\ [][RaceNext]_vars

\* the lifecycle under the scheduler's fairness: every live thread keeps
\* taking steps, and a join returns once its thread has ended. No guard of
\* the caller or of the loop reads the clock (it only stamps observations),
\* so the clock is held here.
FairNext == LifecycleNext(Len(pc) < MaxThreads, MaxObs)

FairSpec ==
    /\ Init
    /\ [][FairNext]_vars
    /\ \A t \in 1..MaxThreads : WF_vars(LoopStep(t))
    /\ WF_vars(JoinReturn)

\* the same fairness with enough frames for two overlapping loops
RaceFairNext == LifecycleNext(Len(pc) < MaxThreads, MaxRaceObs)

RaceFairSpec ==
    /\ Init
    /\ [][RaceFairNext]_vars
    /\ \A t \in 1..MaxThreads : WF_vars(LoopStep(t))
    /\ WF_vars(JoinReturn)

(***************************************************************************)
(* Gemma: the escalation controller.                                       *)
(***************************************************************************)
\* user inputs, as sequences of characters
Inputs == {<<>>, <<" ">>, <<"a">>, <<" ", "b">>}

\* outcome of tokenizer/model.generate/decode: a non-empty text, a text that
\* strips to the empty string, or an exception
GenOutcomes == {"text", "empty", "raise"}

RECURSIVE LStrip(_)
LStrip(s) == IF s # <<>> /\ s[1] = " " THEN LStrip(Tail(s)) ELSE s

RECURSIVE RStrip(_)
RStrip(s) ==
    IF s # <<>> /\ s[Len(s)] = " " THEN RStrip(SubSeq(s, 1, Len(s) - 1)) ELSE s

\* str.strip()
Strip(s) == RStrip(LStrip(s))

\* line 88: not user_input or not user_input.strip()
IsBlank(user_input) == user_input = <<>> \/ Strip(user_input) = <<>>

\* lines 40-70: the tier is chosen from self.escalation_level
_get_unverified_prompt(level, user_input) ==
    [tier |-> IF level = 1 THEN "inquire"
              ELSE IF level = 2 THEN "order to leave"
              ELSE "final warning",
     user_input |-> user_input]

\* lines 72-81
_get_verified_prompt(user_input) ==
    [tier |-> "concierge", user_input |-> user_input]

\* mutant: the status is stored but the level is not reset
set_verification_status_no_reset(status) ==
    /\ gemma_is_verified' = status
    /\ last_call' = <<"set_verification_status", status>>
    /\ status_set' = TRUE
    /\ UNCHANGED <<escalation_level, prompt, reply>>
    /\ UNCHANGED <<recVars, last_print, envVars, outVars, audioVars>>

\* lines 27-37
set_verification_status(status) ==
    /\ gemma_is_verified' = status
    /\ escalation_level' = IF status THEN 0 ELSE escalation_level
    /\ last_call' = <<"set_verification_status", status>>
    /\ status_set' = TRUE
    /\ UNCHANGED <<prompt, reply>>
    /\ UNCHANGED <<recVars, last_print, envVars, outVars, audioVars>>

\* lines 108-117: what chat hands back for a generator outcome; "raised"
\* stands for the exception leaving chat
Response(gen) ==
    IF gen = "text" THEN "text"
    ELSE IF gen = "empty" THEN ""
    ELSE "raised"

\* mutant: the level saturates at the top tier
chat_saturating(user_input, gen) ==
    /\ last_call' = <<"chat", user_input, gen>>
    /\ IF IsBlank(user_input)
       THEN /\ reply' = "Please provide a valid input."
            /\ UNCHANGED <<escalation_level, prompt>>
       ELSE /\ IF ~gemma_is_verified
               THEN LET level == IF escalation_level < 3
                                 THEN escalation_level + 1 ELSE 3
                    IN /\ escalation_level' = level
                       /\ prompt' = _get_unverified_prompt(level, user_input)
               ELSE /\ escalation_level' = 0
                    /\ prompt' = _get_verified_prompt(user_input)
            /\ reply' = Response(gen)
    /\ UNCHANGED <<gemma_is_verified, status_set>>
    /\ UNCHANGED <<recVars, last_print, envVars, outVars, audioVars>>

\* mutant: the prompt is chosen before the level is incremented
chat_prompt_before_increment(user_input, gen) ==
    /\ last_call' = <<"chat", user_input, gen>>
    /\ IF IsBlank(user_input)
       THEN /\ reply' = "Please provide a valid input."
            /\ UNCHANGED <<escalation_level, prompt>>
       ELSE /\ IF ~gemma_is_verified
               THEN /\ escalation_level' = escalation_level + 1
                    /\ prompt' = _get_unverified_prompt(escalation_level, user_input)
               ELSE /\ escalation_level' = 0
                    /\ prompt' = _get_verified_prompt(user_input)
            /\ reply' = Response(gen)
    /\ UNCHANGED <<gemma_is_verified, status_set>>
    /\ UNCHANGED <<recVars, last_print, envVars, outVars, audioVars>>

\* mutant: no check of the input; a blank input is a chat turn like any other
chat_no_input_check(user_input, gen) ==
    /\ last_call' = <<"chat", user_input, gen>>
    /\ IF ~gemma_is_verified
       THEN /\ escalation_level' = escalation_level + 1
            /\ prompt' = _get_unverified_prompt(escalation_level + 1, user_input)
       ELSE /\ escalation_level' = 0
            /\ prompt' = _get_verified_prompt(user_input)
    /\ reply' = Response(gen)
    /\ UNCHANGED <<gemma_is_verified, status_set>>
    /\ UNCHANGED <<recVars, last_print, envVars, outVars, audioVars>>

\* lines 84-117
chat(user_input, gen) ==
    /\ last_call' = <<"chat", user_input, gen>>
    /\ IF IsBlank(user_input)
       THEN /\ reply' = "Please provide a valid input."
            /\ UNCHANGED <<escalation_level, prompt>>
       ELSE /\ IF ~gemma_is_verified
               THEN /\ escalation_level' = escalation_level + 1
                    /\ prompt' = _get_unverified_prompt(escalation_level + 1, user_input)
               ELSE /\ escalation_level' = 0
                    /\ prompt' = _get_verified_prompt(user_input)
            /\ reply' = Response(gen)
    /\ UNCHANGED <<gemma_is_verified, status_set>>
    /\ UNCHANGED <<recVars, last_print, envVars, outVars, audioVars>>

GemmaNext ==
    \/ \E status \in BOOLEAN : set_verification_status(status)
    \/ \E user_input \in Inputs : \E gen \in GenOutcomes :
          /\ escalation_level <= MaxLevel
          /\ chat(user_input, gen)

GemmaSpec == Init /\ [][GemmaNext]_vars

(***************************************************************************)
(* AudioInterpreter and Listner: capture, transcription and terminate.     *)
(* run and terminate have a caller each; every run adds a listening and an *)
(* interpreting thread.                                                    *)
(***************************************************************************)
\* lines 48-49: interpret transcribes the last 10 chunks at most
SnapshotChunks == 10

\* line 49: audio[-10:]
LastChunks(list) ==
    IF Len(list) > SnapshotChunks
    THEN SubSeq(list, Len(list) - SnapshotChunks + 1, Len(list))
    ELSE list

\* outcomes of self.model.transcribe: a result, or an exception
TranscribeOutcomes == {"ok", "raise"}

\* outcomes of a stream.read on a stream that another thread has stopped or
\* closed: PortAudio reports an error (read raises), or the call never returns
DeadReadOutcomes == {"raise", "hang"}

ListenIds == 1..Len(listenpc)

InterpretIds == 1..Len(interppc)

\* line 63 into lines 21-22: AudioInterpreter.run calls Listner.run, which
\* binds self.listeningThread to a new Thread; nothing stops a second run
audio_run ==
    /\ runpc = "idle"
    /\ listenpc' = Append(listenpc, "created")
    /\ listeningThread' = Len(listenpc) + 1
    /\ runpc' = "start listening"
    /\ UNCHANGED <<audioData, audio, interppc, interpetingThread, stream,
                   stream_calls, p, model, terminatepc, joined>>
    /\ UNCHANGED <<recVars, last_print, envVars, outVars, gemmaVars>>

\* line 23: self.listeningThread.start()
StartListening ==
    /\ runpc = "start listening"
    /\ listenpc' = [listenpc EXCEPT ![listeningThread] = "read"]
    /\ runpc' = "create interpreting"
    /\ UNCHANGED <<audioData, audio, interppc, listeningThread,
                   interpetingThread, stream, stream_calls, p, model,
                   terminatepc, joined>>
    /\ UNCHANGED <<recVars, last_print, envVars, outVars, gemmaVars>>

\* line 64: self.interpetingThread = threading.Thread(...)
CreateInterpreting ==
    /\ runpc = "create interpreting"
    /\ interppc' = Append(interppc, "created")
    /\ audio' = Append(audio, <<>>)
    /\ interpetingThread' = Len(interppc) + 1
    /\ runpc' = "start interpreting"
    /\ UNCHANGED <<audioData, listenpc, listeningThread, stream, stream_calls,
                   p, model, terminatepc, joined>>
    /\ UNCHANGED <<recVars, last_print, envVars, outVars, gemmaVars>>

\* line 65: self.interpetingThread.start()
StartInterpreting ==
    /\ runpc = "start interpreting"
    /\ interppc' = [interppc EXCEPT ![interpetingThread] = "test"]
    /\ runpc' = "idle"
    /\ UNCHANGED <<audioData, audio, listenpc, listeningThread,
                   interpetingThread, stream, stream_calls, p, model,
                   terminatepc, joined>>
    /\ UNCHANGED <<recVars, last_print, envVars, outVars, gemmaVars>>

\* line 18: stream.read returns a chunk while the stream is active; on a
\* stopped or closed stream it raises, which ends the thread, or never returns
ListenRead(t, outcome) ==
    /\ listenpc[t] = "read"
    /\ listenpc' = [listenpc EXCEPT ![t] =
                      IF stream = "active" THEN "append"
                      ELSE IF outcome = "raise" THEN "ended"
                      ELSE "blocked"]
    /\ UNCHANGED <<audioData, audio, interppc, listeningThread,
                   interpetingThread, runpc, stream, stream_calls, p, model,
                   terminatepc, joined>>
    /\ UNCHANGED <<recVars, last_print, envVars, outVars, gemmaVars>>

\* line 19: queue.append(data), then back to the read of the while True loop
ListenAppend(t) ==
    /\ listenpc[t] = "append"
    /\ audioData' = Append(audioData, Len(audioData) + 1)
    /\ listenpc' = [listenpc EXCEPT ![t] = "read"]
    /\ UNCHANGED <<audio, interppc, listeningThread, interpetingThread, runpc,
                   stream, stream_calls, p, model, terminatepc, joined>>
    /\ UNCHANGED <<recVars, last_print, envVars, outVars, gemmaVars>>

\* lines 46-48: audio = self.audioData (the list itself), and the length test
InterpretTest(t) ==
    /\ interppc[t] = "test"
    /\ interppc' = [interppc EXCEPT ![t] =
                      IF Len(audioData) > SnapshotChunks THEN "slice" ELSE "join"]
    /\ UNCHANGED <<audioData, audio, listenpc, listeningThread,
                   interpetingThread, runpc, stream, stream_calls, p, model,
                   terminatepc, joined>>
    /\ UNCHANGED <<recVars, last_print, envVars, outVars, gemmaVars>>

\* line 49, then lines 51-55 on the copy: the last 10 chunks of the list as it
\* is now
InterpretSlice(t) ==
    /\ interppc[t] = "slice"
    /\ audio' = [audio EXCEPT ![t] = LastChunks(audioData)]
    /\ interppc' = [interppc EXCEPT ![t] = "transcribe"]
    /\ UNCHANGED <<audioData, listenpc, listeningThread, interpetingThread,
                   runpc, stream, stream_calls, p, model, terminatepc,
                   joined>>
    /\ UNCHANGED <<recVars, last_print, envVars, outVars, gemmaVars>>

\* lines 51-55 when the length test failed: b''.join reads the shared list as
\* it is now, whatever its length
InterpretJoin(t) ==
    /\ interppc[t] = "join"
    /\ audio' = [audio EXCEPT ![t] = audioData]
    /\ interppc' = [interppc EXCEPT ![t] = "transcribe"]
    /\ UNCHANGED <<audioData, listenpc, listeningThread, interpetingThread,
                   runpc, stream, stream_calls, p, model, terminatepc,
                   joined>>
    /\ UNCHANGED <<recVars, last_print, envVars, outVars, gemmaVars>>

\* lines 57-59: transcribe and print; the while True loop (line 45) has no
\* exit, so the thread ends only when transcribe raises, as it does once
\* self.model is deleted
InterpretTranscribe(t, outcome) ==
    /\ interppc[t] = "transcribe"
    /\ interppc' = [interppc EXCEPT ![t] =
                      IF outcome = "raise" \/ model = "deleted" THEN "ended" ELSE "test"]
    /\ audio' = [audio EXCEPT ![t] = <<>>]
    /\ UNCHANGED <<audioData, listenpc, listeningThread, interpetingThread,
                   runpc, stream, stream_calls, p, model, terminatepc,
                   joined>>
    /\ UNCHANGED <<recVars, last_print, envVars, outVars, gemmaVars>>

\* lines 67-69: AudioInterpreter.terminate() is entered; nothing in the code
\* keeps it from being called again after an earlier call returned or raised
audio_terminate ==
    /\ terminatepc \in {"idle", "returned", "raised"}
    /\ terminatepc' = "join interpreting"
    /\ UNCHANGED <<audioData, audio, listenpc, interppc, listeningThread,
                   interpetingThread, runpc, stream, stream_calls, p, model,
                   joined>>
    /\ UNCHANGED <<recVars, last_print, envVars, outVars, gemmaVars>>

\* line 71: self.interpetingThread.join() is called: AttributeError when run
\* has not bound the attribute yet, RuntimeError when the thread is not started
JoinInterpretingCall ==
    /\ terminatepc = "join interpreting"
    /\ IF interpetingThread = 0 \/ interppc[interpetingThread] = "created"
       THEN /\ terminatepc' = "raised"
            /\ UNCHANGED joined
       ELSE /\ terminatepc' = "wait interpreting"
            /\ joined' = interpetingThread
    /\ UNCHANGED <<audioData, audio, listenpc, interppc, listeningThread,
                   interpetingThread, runpc, stream, stream_calls, p, model>>
    /\ UNCHANGED <<recVars, last_print, envVars, outVars, gemmaVars>>

\* line 71: the join returns once that thread has ended
JoinInterpreting ==
    /\ terminatepc = "wait interpreting"
    /\ interppc[joined] = "ended"
    /\ terminatepc' = "stop_stream"
    /\ UNCHANGED <<audioData, audio, listenpc, interppc, listeningThread,
                   interpetingThread, runpc, stream, stream_calls, p, model,
                   joined>>
    /\ UNCHANGED <<recVars, last_print, envVars, outVars, gemmaVars>>

\* what PortAudio's binding does with stop_stream() or close() on a stream
\* that is closed already: nothing, or it raises OSError
ClosedStreamOutcomes == {"returns", "raises"}

\* line 29 (Listner.terminate, called at line 72): stream.stop_stream()
StopStream(outcome) ==
    /\ terminatepc = "stop_stream"
    /\ IF stream = "active"
       THEN /\ outcome = "returns"
            /\ stream' = "stopped"
            /\ stream_calls' = Append(stream_calls, "stop_stream")
            /\ terminatepc' = "close"
       ELSE IF outcome = "returns"
       THEN /\ stream_calls' = Append(stream_calls, "stop_stream")
            /\ terminatepc' = "close"
            /\ UNCHANGED stream
       ELSE /\ terminatepc' = "raised"
            /\ UNCHANGED <<stream, stream_calls>>
    /\ UNCHANGED <<audioData, audio, listenpc, interppc, listeningThread,
                   interpetingThread, runpc, p, model, joined>>
    /\ UNCHANGED <<recVars, last_print, envVars, outVars, gemmaVars>>

\* line 30: stream.close()
CloseStream(outcome) ==
    /\ terminatepc = "close"
    /\ IF stream # "closed"
       THEN /\ outcome = "returns"
            /\ stream' = "closed"
            /\ stream_calls' = Append(stream_calls, "close")
            /\ terminatepc' = "p.terminate"
       ELSE IF outcome = "returns"
       THEN /\ stream_calls' = Append(stream_calls, "close")
            /\ terminatepc' = "p.terminate"
            /\ UNCHANGED stream
       ELSE /\ terminatepc' = "raised"
            /\ UNCHANGED <<stream, stream_calls>>
    /\ UNCHANGED <<audioData, audio, listenpc, interppc, listeningThread,
                   interpetingThread, runpc, p, model, joined>>
    /\ UNCHANGED <<recVars, last_print, envVars, outVars, gemmaVars>>

\* line 31: p.terminate()
PyAudioTerminate ==
    /\ terminatepc = "p.terminate"
    /\ p' = "terminated"
    /\ terminatepc' = "join listening"
    /\ UNCHANGED <<audioData, audio, listenpc, interppc, listeningThread,
                   interpetingThread, runpc, stream, stream_calls, model,
                   joined>>
    /\ UNCHANGED <<recVars, last_print, envVars, outVars, gemmaVars>>

\* line 32: self.listeningThread.join() is called: RuntimeError when a run in
\* progress has bound a thread it has not started yet
JoinListeningCall ==
    /\ terminatepc = "join listening"
    /\ IF listenpc[listeningThread] = "created"
       THEN /\ terminatepc' = "raised"
            /\ UNCHANGED joined
       ELSE /\ terminatepc' = "wait listening"
            /\ joined' = listeningThread
    /\ UNCHANGED <<audioData, audio, listenpc, interppc, listeningThread,
                   interpetingThread, runpc, stream, stream_calls, p, model>>
    /\ UNCHANGED <<recVars, last_print, envVars, outVars, gemmaVars>>

\* lines 32-33: the join returns once that thread has ended
JoinListening ==
    /\ terminatepc = "wait listening"
    /\ listenpc[joined] = "ended"
    /\ terminatepc' = "del model"
    /\ UNCHANGED <<audioData, audio, listenpc, interppc, listeningThread,
                   interpetingThread, runpc, stream, stream_calls, p, model,
                   joined>>
    /\ UNCHANGED <<recVars, last_print, envVars, outVars, gemmaVars>>

\* lines 73-76: del self.model (AttributeError when an earlier terminate has
\* deleted it), empty the CUDA cache, return
DeleteModel ==
    /\ terminatepc = "del model"
    /\ IF model = "deleted"
       THEN /\ terminatepc' = "raised"
            /\ UNCHANGED model
       ELSE /\ model' = "deleted"
            /\ terminatepc' = "returned"
    /\ UNCHANGED <<audioData, audio, listenpc, interppc, listeningThread,
                   interpetingThread, runpc, stream, stream_calls, p, joined>>
    /\ UNCHANGED <<recVars, last_print, envVars, outVars, gemmaVars>>

\* the steps of a listening thread, of an interpreting thread, and of the
\* callers of run and terminate
ListenStep(t) ==
    /\ t \in ListenIds
    /\ \/ \E outcome \in DeadReadOutcomes :
             /\ stream = "active" => Len(audioData) < MaxChunks
             /\ ListenRead(t, outcome)
       \/ ListenAppend(t)

InterpretStep(t) ==
    /\ t \in InterpretIds
    /\ \/ InterpretTest(t)
       \/ InterpretSlice(t)
       \/ InterpretJoin(t)
       \/ \E outcome \in TranscribeOutcomes : InterpretTranscribe(t, outcome)

RunStep ==
    \/ StartListening
    \/ CreateInterpreting
    \/ StartInterpreting

TerminateStep ==
    \/ JoinInterpretingCall
    \/ JoinInterpreting
    \/ \E outcome \in ClosedStreamOutcomes : StopStream(outcome)
    \/ \E outcome \in ClosedStreamOutcomes : CloseStream(outcome)
    \/ PyAudioTerminate
    \/ JoinListeningCall
    \/ JoinListening
    \/ DeleteModel

AudioNext ==
    \/ Len(listenpc) < MaxRuns /\ audio_run
    \/ StartListening
    \/ CreateInterpreting
    \/ StartInterpreting
    \/ \E t \in ListenIds : \E outcome \in DeadReadOutcomes :
          /\ stream = "active" => Len(audioData) < MaxChunks
          /\ ListenRead(t, outcome)
    \/ \E t \in ListenIds : ListenAppend(t)
    \/ \E t \in InterpretIds : InterpretTest(t)
    \/ \E t \in InterpretIds : InterpretSlice(t)
    \/ \E t \in InterpretIds : InterpretJoin(t)
    \/ \E t \in InterpretIds : \E outcome \in TranscribeOutcomes :
          InterpretTranscribe(t, outcome)
    \/ Len(stream_calls) < MaxStreamCalls /\ audio_terminate
    \/ JoinInterpretingCall
    \/ JoinInterpreting
    \/ \E outcome \in ClosedStreamOutcomes : StopStream(outcome)
    \/ \E outcome \in ClosedStreamOutcomes : CloseStream(outcome)
    \/ PyAudioTerminate
    \/ JoinListeningCall
    \/ JoinListening
    \/ DeleteModel

\* the audio threads under the scheduler's fairness: each thread that can
\* take a step eventually takes one
AudioFairSpec ==
    /\ Init
    /\ [][AudioNext]_vars
    /\ \A t \in 1..MaxRuns : WF_vars(ListenStep(t))
    /\ \A t \in 1..MaxRuns : WF_vars(InterpretStep(t))
    /\ WF_vars(RunStep)
    /\ WF_vars(TerminateStep)

(***************************************************************************)
(* Properties.                                                             *)
(***************************************************************************)
LastIngested == ingested[Len(ingested)]

\* positions of a cycle inside the eviction loop (lines 128-129)
Evicting == {"evict", "head", "popleft"}

\* positions of a cycle between its append and its write of the verdict
MidCycle == Evicting \cup {"vote", "iter", "count", "len", "decide", "clear"}

\* positions inside the body of the while loop (lines 113-166)
LoopBody ==
    {"read", "sleep", "ingest", "append"} \cup MidCycle
        \cup {"compare", "report", "remember", "waitkey"}

\* C1: when all observations ingested so far span less than the window, the
\* verdict written by the last cycle equals (number of Trusted / number of all) >= 0.5 over all of
\* them; both non-Trusted labels count in the denominator, and an exact tie
\* gives verified = TRUE.
C1_VerdictIsMajority ==
    ( /\ ingested # <<>>
      /\ LastIngested.ts - ingested[1].ts < state_window_seconds
      /\ \A t \in ThreadIds : pc[t] \notin MidCycle )
        => (is_verified <=>
              2 * Cardinality({i \in 1..Len(ingested) : ingested[i].status = "Trusted"})
                >= Len(ingested))

\* C2: after every ingestion cycle the window holds exactly the ingested
\* observations whose age at that cycle is at most the window length, in
\* ascending timestamp order (age exactly W is kept, older is evicted).
C2_WindowContents ==
    (ingested # <<>> /\ \A t \in ThreadIds : pc[t] \notin Evicting) =>
        LET InWindow(o) == LastIngested.ts - o.ts <= state_window_seconds
        IN /\ detection_history = SelectSeq(ingested, InWindow)
           /\ \A i, j \in 1..Len(detection_history) :
                 i < j => detection_history[i].ts <= detection_history[j].ts

\* C3: once more than W seconds have passed since the last ingested
\* observation, the window is empty and the verdict is FALSE.
C3_SilenceEmptiesWindow ==
    (ingested # <<>> /\ now - LastIngested.ts > state_window_seconds)
        => (detection_history = <<>> /\ is_verified = FALSE)

\* C4: after set_verification_status(True) the level is 0, and the chat turn
\* that follows, with any non-empty input, selects the verified (concierge)
\* prompt and leaves the level at 0.
C4_ReverifyResetsLevel ==
    [][ /\ last_call' = <<"set_verification_status", TRUE>>
            => (gemma_is_verified' /\ escalation_level' = 0)
        /\ ( /\ last_call = <<"set_verification_status", TRUE>>
             /\ last_call'[1] = "chat"
             /\ ~IsBlank(last_call'[2]) )
            => ( /\ prompt' = [tier |-> "concierge", user_input |-> last_call'[2]]
                 /\ escalation_level' = 0 )
      ]_vars

\* just re-verified from level 2 or above: the last prompt built is still an
\* escalated one, and the level is back to 0
C4_Witness ==
    /\ last_call = <<"set_verification_status", TRUE>>
    /\ prompt.tier = "final warning"
    /\ escalation_level = 0

\* the top policy tier
TierCount == 3

\* an unverified chat turn with a non-empty input is being taken
UnverifiedTurn ==
    /\ ~gemma_is_verified
    /\ last_call'[1] = "chat"
    /\ ~IsBlank(last_call'[2])

\* C5 (as claimed): the level saturates at the top tier: it never exceeds
\* the tier count.
C5_LevelSaturates == escalation_level <= TierCount

\* C5 (amended): while unverified the level never decreases and rises by
\* exactly 1 on every chat turn with a non-empty input, without a cap; only
\* the chosen prompt tier saturates, at the final warning, from level 3 on.
C5_LevelCountsTurns ==
    [][ /\ (~gemma_is_verified /\ ~gemma_is_verified')
            => escalation_level' >= escalation_level
        /\ UnverifiedTurn
            => ( /\ escalation_level' = escalation_level + 1
                 /\ prompt'.tier = IF escalation_level' = 1 THEN "inquire"
                                   ELSE IF escalation_level' = 2 THEN "order to leave"
                                   ELSE "final warning" )
      ]_vars

\* a level above the tier count, reached by unverified chat turns
C5_Witness ==
    /\ ~gemma_is_verified
    /\ escalation_level = TierCount + 1
    /\ prompt.tier = "final warning"
    /\ last_call[1] = "chat"

\* C6: at construction both verification flags are FALSE, and a chat turn
\* taken before any set_verification_status call goes the unverified way.
C6_FailClosedAtConstruction ==
    /\ ingested = <<>> => is_verified = FALSE
    /\ ~status_set => gemma_is_verified = FALSE
    /\ (~status_set /\ last_call[1] = "chat" /\ ~IsBlank(last_call[2]))
          => (escalation_level >= 1 /\ prompt.tier # "concierge")

\* C7: stop_recognition called while _running is FALSE (before any start, or
\* again after a stop) changes nothing: no join, no thread touched, no
\* release; a join is only ever made on an existing thread; and no thread
\* releases the camera more often than it opened it.
C7_StopIdempotent ==
    [][ /\ (last_print' # last_print /\ last_print' = "Recognition is not running.")
            => (~_running /\ UNCHANGED recVars)
        /\ (mainpc = "idle" /\ ~_running) => mainpc' # "joining"
        /\ mainpc' = "joining" => _recognition_thread' \in 1..Len(pc')
        /\ \A t \in 1..Len(pc') : released'[t] <= opened'[t] /\ opened'[t] <= 1
      ]_vars

\* a stop that found nothing running, after a loop ended and released the
\* camera it had opened
C7_Witness ==
    /\ last_print = "Recognition is not running."
    /\ _recognition_thread \in ThreadIds
    /\ pc[_recognition_thread] = "done"
    /\ opened[_recognition_thread] = 1
    /\ released[_recognition_thread] = 1

\* C8: once stop_recognition has cleared the flag and waits in join, the
\* flag stays cleared, the loop leaves at its next while test (after a good
\* or a failed cycle), the camera it opened is released, and
\* stop_recognition returns.
C8_StopTerminates ==
    /\ [](mainpc = "joining" => ~_running)
    /\ [][ \A t \in ThreadIds :
              (mainpc = "joining" /\ pc[t] = "test" /\ pc'[t] # "test")
                  => pc'[t] = "release" ]_vars
    /\ (mainpc = "joining")
          ~> ( /\ mainpc = "idle"
               /\ last_print = "Recognition thread stopped."
               /\ pc[_recognition_thread] = "done"
               /\ released[_recognition_thread] = opened[_recognition_thread] )

\* C9: a failed frame read skips the cycle: the window and the verdict stay
\* as they were, the thread goes back to the loop test, the loop is left
\* only when _running is FALSE, and a good frame is ingested.
C9_FailedFrameSkipsCycle ==
    [][ \A t \in ThreadIds :
          /\ (pc[t] = "read" /\ pc'[t] # "read")
                => /\ pc'[t] \in {"sleep", "ingest"}
                   /\ UNCHANGED <<detection_history, is_verified, ingested>>
          /\ (pc[t] = "sleep" /\ pc'[t] # "sleep")
                => /\ pc'[t] = "test"
                   /\ UNCHANGED <<detection_history, is_verified, ingested>>
          /\ (pc[t] = "test" /\ pc'[t] # "test")
                => pc'[t] = (IF _running THEN "read" ELSE "release")
          /\ (pc[t] = "ingest" /\ pc'[t] # "ingest")
                => pc'[t] = "append"
          /\ (pc[t] = "append" /\ pc'[t] # "append")
                => /\ pc'[t] = "evict"
                   /\ Len(ingested') = Len(ingested) + 1
      ]_vars

\* a failed cycle while the window holds observations and the verdict is TRUE
C9_Witness ==
    \E t \in ThreadIds :
        /\ pc[t] = "sleep"
        /\ detection_history # <<>>
        /\ is_verified
        /\ _running

\* the previous chat turn had this input and its generation failed
RetryOfFailedTurn ==
    /\ last_call[1] = "chat"
    /\ last_call'[1] = "chat"
    /\ last_call'[2] = last_call[2]
    /\ ~IsBlank(last_call[2])
    /\ reply \in {"", "raised"}

\* C10: the level after a chat turn does not depend on the generator's
\* outcome, and retrying a failed generation does not increment it again.
C10_GenerationFailureKeepsLevel ==
    [][ (last_call'[1] = "chat" /\ ~IsBlank(last_call'[2]))
          => IF RetryOfFailedTurn
             THEN escalation_level' = escalation_level
             ELSE escalation_level' =
                    (IF gemma_is_verified THEN 0 ELSE escalation_level + 1)
      ]_vars

\* C11: when the generator raises or yields an empty reply, chat hands a
\* fallback reply back: it neither lets the error out nor returns an empty
\* string.
C11_FallbackReply ==
    (last_call[1] = "chat" /\ last_call[2] \notin {<<>>, <<" ">>})
        => reply \notin {"", "raised"}

\* C14: after an unverified chat turn the prompt is the one of the level as
\* incremented by that turn (inquire at 1, order to leave at 2, final
\* warning from 3 on) and carries the turn's utterance.
C14_PromptFromNewLevel ==
    (last_call[1] = "chat" /\ last_call[2] \notin {<<>>, <<" ">>} /\ ~gemma_is_verified)
        => /\ escalation_level >= 1
           /\ prompt.user_input = last_call[2]
           /\ prompt.tier = (CASE escalation_level = 1 -> "inquire"
                               [] escalation_level = 2 -> "order to leave"
                               [] OTHER -> "final warning")

\* the second unverified turn in a row: the order to leave
C14_Witness ==
    /\ last_call[1] = "chat"
    /\ ~gemma_is_verified
    /\ escalation_level = 2
    /\ prompt.tier = "order to leave"

\* C15: whenever the controller is verified the level is 0, and a chat turn
\* taken while verified uses the concierge prompt.
C15_VerifiedMeansLevelZero ==
    /\ gemma_is_verified => escalation_level = 0
    /\ (gemma_is_verified /\ last_call[1] = "chat" /\ last_call[2] \notin {<<>>, <<" ">>})
          => (prompt.tier = "concierge" /\ prompt.user_input = last_call[2])

\* a verified chat turn after the controller had been set unverified and back
C15_Witness ==
    /\ status_set
    /\ gemma_is_verified
    /\ last_call[1] = "chat"
    /\ prompt.tier = "concierge"
    /\ escalation_level = 0

\* C18: a chat call with an empty or whitespace-only input returns the fixed
\* reply, hands no prompt to the generator, and leaves is_verified and the
\* level as they were.
C18_BlankInputIsNoTurn ==
    [][ (last_call'[1] = "chat" /\ last_call'[2] \in {<<>>, <<" ">>})
          => /\ reply' = "Please provide a valid input."
             /\ UNCHANGED <<gemma_is_verified, escalation_level, prompt, status_set>>
      ]_vars

\* a blank input answered while unverified, the level kept above 0
C18_Witness ==
    /\ last_call[1] = "chat"
    /\ last_call[2] = <<" ">>
    /\ reply = "Please provide a valid input."
    /\ ~gemma_is_verified
    /\ escalation_level = 2

\* the verdict of the k-th ingest: the majority over the observations
\* ingested up to it that are no older than the window at its time
VerdictAt(k) ==
    LET inWindow == {i \in 1..k :
                       ingested[k].ts - ingested[i].ts <= state_window_seconds}
        trusted == {i \in inWindow : ingested[i].status = "Trusted"}
    IN 2 * Cardinality(trusted) >= Cardinality(inWindow)

\* ingests whose verdict has been written
Completed == Len(ingested) - Cardinality({t \in ThreadIds : pc[t] \in MidCycle})

\* C12: at every point of the loop, also between any two steps of a cycle
\* from its append to its write of the flag, is_verified holds the final verdict of the last
\* completed ingest, or the initial FALSE when there is none: a reader never
\* sees an intermediate value.
C12_FlagIsCompletedVerdict ==
    is_verified = (IF Completed = 0 THEN FALSE ELSE VerdictAt(Completed))

\* in the middle of an ingest that will flip the verdict: the window is
\* already updated, the flag still holds the previous verdict
C12_Witness ==
    /\ \E t \in ThreadIds : pc[t] = "decide"
    /\ Completed >= 1
    /\ is_verified
    /\ ~VerdictAt(Len(ingested))

\* C13: whenever no loop is between a write of the verdict and its report,
\* the number of "State changed to" reports equals the number of writes that
\* changed the verdict, counted from the initial FALSE.
C13_OneReportPerFlip ==
    (\A t \in ThreadIds : pc[t] \notin {"compare", "report"})
        => notified = flips

\* C16: at most one recognition loop is inside its while loop at any time.
C16_OneLoopLive ==
    Cardinality({t \in ThreadIds : pc[t] \in LoopBody}) <= 1

\* C17: outside start_recognition's own steps from setting the flag to
\* starting the thread, _running is TRUE only while a recognition thread is
\* alive.
C17_RunningOnlyWhileLive ==
    (_running /\ mainpc \notin {"create", "start"})
        => \E t \in ThreadIds : pc[t] # "done"

\* C19: after AudioInterpreter.run has returned, a call of
\* AudioInterpreter.terminate eventually returns, with the threads of that
\* run ended and the stream stopped and closed exactly once.
C19_TerminateReturns ==
    (terminatepc = "wait interpreting" /\ runpc = "idle")
      ~> /\ terminatepc = "returned"
         /\ interppc[interpetingThread] = "ended"
         /\ listenpc[listeningThread] = "ended"
         /\ stream_calls = <<"stop_stream", "close">>

====
